---- MODULE Spec2Model ----
(***************************************************************************)
(* A model of mlrose's experiment runner, _RunnerBase                      *)
(* (src/mlrose/runners/_runner_base.py): the sweep over the product of the *)
(* option values, the invocation of the algorithm for each combination and *)
(* the _save_state callback that records run statistics and fitness curves.*)
(*                                                                         *)
(* Python dicts are functions over strings, lists are sequences, None is   *)
(* the value None.  All values are integers.  The algorithm, the values'   *)
(* get_info__ and get_short_name live outside the runner file and are      *)
(* modelled from the specification's algorithm contract.                   *)
(***************************************************************************)
EXTENDS Integers, Sequences, FiniteSets, TLC

\* ------------------------------------------------------------------ bounds
\* Checkpoints are drawn from 0..MaxIter.
MaxIter == 3
\* time.perf_counter() stops advancing at MaxClock.
MaxClock == 3

\* ------------------------------------------------------------ dictionaries
None == [none |-> 0]

\* the callback's curve argument: None, or a fitness sequence
NoCurve == [given |-> FALSE, values |-> <<>>]

Curve(values) == [given |-> TRUE, values |-> values]

EmptyDict == [key \in {} |-> 0]

\* {**a, **b}, a.update(b): b wins on a key collision
Merge(a, b) ==
  [key \in (DOMAIN a) \cup (DOMAIN b) |-> IF key \in DOMAIN b THEN b[key] ELSE a[key]]

\* dict(pairs), {n: v for (n, v) in pairs}: the last pair of a name wins
Dict(pairs) ==
  [key \in {pairs[j][1] : j \in DOMAIN pairs} |->
     LET last == CHOOSE j \in DOMAIN pairs :
                   /\ pairs[j][1] = key
                   /\ \A m \in DOMAIN pairs : pairs[m][1] = key => m <= j
     IN  pairs[last][2]]

\* The order in which a dict's keys are listed by items(); the model's dicts
\* are listed in this fixed order (the claims do not depend on it).
NameOrder == <<"alpha", "beta", "gamma", "max_iters">>

RECURSIVE ItemsFrom(_, _)
ItemsFrom(d, j) ==
  IF j > Len(NameOrder) THEN <<>>
  ELSE (IF NameOrder[j] \in DOMAIN d THEN << <<NameOrder[j], d[NameOrder[j]]>> >> ELSE <<>>)
       \o ItemsFrom(d, j + 1)

\* [(k, v) for k, v in d.items()]
Items(d) == ItemsFrom(d, 1)

\* str.lower() on the names the model uses
Lower(n) ==
  CASE n \in {"alpha", "Alpha", "ALPHA"} -> "alpha"
    [] n \in {"beta", "Beta"} -> "beta"
    [] n \in {"rate", "Rate", "RATE"} -> "rate"
    [] n = "Iteration" -> "iteration"
    [] n = "Fitness" -> "fitness"
    [] n = "Time" -> "time"
    [] n = "State" -> "state"
    [] OTHER -> n

Max(S) == CHOOSE x \in S : \A y \in S : y <= x

Min(S) == CHOOSE x \in S : \A y \in S : x <= y

RECURSIVE SortedSeq(_)
\* a set of iteration numbers as the ascending list the runner is given
SortedSeq(S) == IF S = {} THEN <<>> ELSE <<Min(S)>> \o SortedSeq(S \ {Min(S)})

\* ------------------------------------------- values outside the runner file
\* Values with a __short_name__ and a get_info__ (decay schedules).
Schedules == {7}

\* get_short_name(v): the value's short name if it has one, else the value
GetShortName(v) == IF v \in Schedules THEN 10 * v ELSE v

\* v.get_info__(t) of a decay schedule: its type and its value at time t
GetInfo(v, t) ==
  [schedule_type |-> GetShortName(v),
   schedule_current_value |-> IF v > t THEN v - t ELSE 0]

\* the fitness the algorithm reports at an iteration: the search is deterministic
\* for a seed, and climbs by one each iteration from the initial state's 1
AlgFitness(iteration) == iteration + 1

\* the state the algorithm reports with a fitness at an iteration
AlgState(iteration, fitness) == 10 * fitness + iteration

\* auxiliary data the algorithm adds to callback_user_info
AlgExtraData == << <<"ALPHA", 5>>, <<"current_restart", 0>> >>

\* ------------------------------------------------------------------- state
VARIABLES
  iteration_list,                 \* self.iteration_list (a set, listed ascending)
  generate_curves,                \* self.generate_curves
  extra_args,                     \* self._extra_args
  kwargs,                         \* run_experiment_'s **kwargs: <<[key, name, present, vs]>>
  parameter_description_dict,     \* self.parameter_description_dict
  value_sets,                     \* run_experiment_'s value_sets
  max_iters,                      \* run_experiment_'s i
  vns_index,                      \* position of the for loop over value_sets
  raw_run_stats,                  \* self._raw_run_stats
  fitness_curves,                 \* self._fitness_curves
  zero_curve_stat,                \* self._zero_curve_stat
  current_logged_algorithm_args,  \* self._current_logged_algorithm_args
  run_start_time,                 \* self._run_start_time
  iteration_times,                \* self._iteration_times
  now,                            \* time.perf_counter()
  pc,                             \* where run_experiment_ / the algorithm stands
  algorithm_args,                 \* **total_args the algorithm was invoked with
  user_info,                      \* callback_user_info handed to the algorithm
  alg_iters,                      \* the algorithm's iteration counter
  alg_curve,                      \* the algorithm's fitness sequence so far
  alg_continue,                   \* what the last callback returned to the algorithm
  last_call,                      \* arguments of the latest _save_state call
  stats_mark,                     \* history: len(_raw_run_stats) when the run began
  curves_mark,                    \* history: len(_fitness_curves) when the run began
  zero_curve_run,                 \* history: the run that wrote _zero_curve_stat
  replay_now,                     \* perf_counter() of a second execution of the same sweep
  replay_start_time,              \* its _run_start_time
  replay_run_stats,               \* its _raw_run_stats
  replay_free,                    \* whether the second execution's clock runs on its own
  output_directory,               \* self._output_directory ("None" for None)
  alg_extra_data,                 \* auxiliary data the algorithm adds to callback_user_info
  run_stats_df,                   \* self.run_stats_df
  curves_df,                      \* self.curves_df
  dir_exists,                     \* os.path.exists(self._output_directory)
  persisted,                      \* the tables dumped to disk
  invoked_log,                    \* history: the algorithm's invocations, in order
  raised_in,                      \* history: the invocations in which the algorithm raised
  call_times                      \* history: the run's elapsed time per iteration called back

inputs == <<iteration_list, generate_curves, extra_args, kwargs, replay_free,
            output_directory, alg_extra_data>>

sweep == <<parameter_description_dict, value_sets, max_iters, vns_index>>

recorder == <<raw_run_stats, fitness_curves, zero_curve_stat,
              current_logged_algorithm_args, run_start_time, iteration_times>>

algorithm == <<algorithm_args, user_info, alg_iters, alg_curve, alg_continue, last_call>>

history == <<stats_mark, curves_mark, zero_curve_run>>

tables == <<run_stats_df, curves_df, persisted>>

invocations == <<invoked_log, raised_in, call_times>>

replay == <<replay_now, replay_start_time, replay_run_stats>>

vars == <<inputs, sweep, recorder, algorithm, history, replay, now, pc,
          tables, invocations, dir_exists>>

\* ------------------------------------------------------- run_experiment_
\* values = [[(k, v) for v in vs] for (k, (n, vs)) in kwargs.items() if vs is not None]
Values(kw) ==
  LET present == SelectSeq(kw, LAMBDA o : o.present)
  IN  [j \in DOMAIN present |->
         [m \in DOMAIN present[j].vs |-> <<present[j].key, present[j].vs[m]>>]]

\* {k: n for (k, (n, vs)) in kwargs.items() if vs is not None}
ParameterDescriptionDict(kw) ==
  LET present == SelectSeq(kw, LAMBDA o : o.present)
  IN  Dict([j \in DOMAIN present |-> <<present[j].key, present[j].name>>])

RECURSIVE PrefixAll(_, _)
\* every tuple of rest with the pair p put in front
PrefixAll(p, rest) ==
  IF rest = <<>> THEN <<>> ELSE << <<p>> \o Head(rest) >> \o PrefixAll(p, Tail(rest))

RECURSIVE ProductFrom(_, _)
RECURSIVE Product(_)
\* the tuples of Product(rest) prefixed by each pair of first, in order
ProductFrom(first, rest) ==
  IF first = <<>> THEN <<>>
  ELSE PrefixAll(Head(first), Product(rest)) \o ProductFrom(Tail(first), rest)

\* mutant: no combination when there is nothing to multiply
ProductNoBaseline(values) ==
  IF values = <<>> THEN <<>> ELSE ProductFrom(Head(values), Tail(values))

\* list(it.product(*values)): the rightmost sequence advances fastest
Product(values) ==
  IF values = <<>> THEN << <<>> >> ELSE ProductFrom(Head(values), Tail(values))

\* self.run_stats_df = None, self.curves_df = None
NoTable == [built |-> FALSE, rows |-> <<>>]

\* pd.DataFrame(rows)
DataFrame(rows) == [built |-> TRUE, rows |-> rows]

\* mutant: an empty checkpoint set gives the budget 0
IterationBudgetDefaultZero(list) == IF list = {} THEN 0 ELSE Max(list)

\* mutant: the budget is the smallest checkpoint
IterationBudgetSmallest(list) == IF list = {} THEN -1 ELSE Min(list)

\* i = int(max(self.iteration_list)); -1 stands for the ValueError max() raises
\* on an empty list
IterationBudget(list) == IF list = {} THEN -1 ELSE Max(list)

\* mutant: the combination's values override the fixed arguments
TotalArgsCombinationWins(vns, extra) == Merge(extra, Dict(vns))

\* _run_one_experiment: total_args.update(self._extra_args)
TotalArgs(vns, extra) == Merge(Dict(vns), extra)

\* _invoke_algorithm's **total_args: max_iters arrives as a keyword with them
InvokeArgs(total_args, i) == Merge(total_args, [max_iters |-> i])

\* mutant: the time log is kept from run to run
InvokeIterationTimesKept(times) == times

\* _invoke_algorithm: self._iteration_times.clear()
InvokeIterationTimes(times) == <<>>

\* mutant: the reference of the elapsed times is kept from run to run
InvokeRunStartTimeKept(start, clock) == start

\* _invoke_algorithm: self._run_start_time = time.perf_counter()
InvokeRunStartTime(start, clock) == clock

\* ------------------------------------------------------------ _save_state
\* mutant: every iteration is logged
FilteredNever(iteration, done) == FALSE

\* mutant: done is not looked at
FilteredIgnoringDone(iteration, done) ==
  iteration > 0 /\ iteration \notin iteration_list

\* the filter: nothing else to log
Filtered(iteration, done) ==
  iteration > 0 /\ iteration \notin iteration_list /\ ~done

\* gd: the display name of a parameter
Gd(n, pdd) == IF n \notin DOMAIN pdd THEN n ELSE pdd[n]

\* param_stats = {str(gd(k)): get_short_name(v) for k, v in logged.items()}
ParamStats(logged, pdd) ==
  [d \in {Gd(key, pdd) : key \in DOMAIN logged} |->
     GetShortName(logged[CHOOSE key \in DOMAIN logged : Gd(key, pdd) = d])]

\* mutant: the names compared as they are written
CurrentIterationStatsCaseSensitive(user_data, param_stats) ==
  LET kept == SelectSeq(user_data, LAMBDA p : p[1] \notin DOMAIN param_stats)
  IN  Merge(Dict(kept), param_stats)

\* current_iteration_stats: user data whose lowered name is no parameter's, then the parameters
CurrentIterationStats(user_data, param_stats) ==
  LET lowered == {Lower(key) : key \in DOMAIN param_stats}
      kept == SelectSeq(user_data, LAMBDA p : Lower(p[1]) \notin lowered)
  IN  Merge(Dict(kept), param_stats)

RECURSIVE InfoFrom(_, _, _)
\* the get_info__(t) dicts of items j.. of the logged arguments, merged in order
InfoFrom(items, j, t) ==
  IF j > Len(items) THEN EmptyDict
  ELSE Merge(IF items[j][2] \in Schedules THEN GetInfo(items[j][2], t) ELSE EmptyDict,
             InfoFrom(items, j + 1, t))

\* additional_info: the get_info__(t) of every logged value that has one
AdditionalInfo(logged, t) == InfoFrom(Items(logged), 1, t)

\* remaining_iterations = [i for i in self.iteration_list if i >= iteration]
RemainingIterations(iteration) == SortedSeq({c \in iteration_list : c >= iteration})

\* min(remaining_iterations) of an empty list raises ValueError
MinError(iteration, done) ==
  iteration > 0 /\ ~done /\ RemainingIterations(iteration) = <<>>

\* mutant: every call fans out to all the remaining checkpoints
IterationsAlwaysAll(iteration, done) ==
  IF iteration > 0 THEN RemainingIterations(iteration) ELSE <<0>>

\* mutant: done=true fans out to the smallest remaining checkpoint only
IterationsSmallestOnly(iteration, done) ==
  IF iteration > 0
  THEN IF RemainingIterations(iteration) = <<>> THEN <<>>
       ELSE <<RemainingIterations(iteration)[1]>>
  ELSE <<0>>

\* the checkpoints a call stores its record under
Iterations(iteration, done) ==
  IF iteration > 0
  THEN IF ~done THEN <<RemainingIterations(iteration)[1]>> ELSE RemainingIterations(iteration)
  ELSE <<0>>

\* mutant: the state and the fitness swapped
RunStatSwapped(i, fitness, t, state, current_iteration_stats, additional_info) ==
  Merge(Merge([Iteration |-> i, Fitness |-> state, Time |-> t, State |-> fitness],
              current_iteration_stats),
        additional_info)

\* mutant: the time and the fitness swapped
RunStatTimeAsFitness(i, fitness, t, state, current_iteration_stats, additional_info) ==
  Merge(Merge([Iteration |-> i, Fitness |-> t, Time |-> fitness, State |-> state],
              current_iteration_stats),
        additional_info)

\* mutant: the record's own fields written last
RunStatKeyFieldsLast(i, fitness, t, state, current_iteration_stats, additional_info) ==
  Merge(Merge(current_iteration_stats, additional_info),
        [Iteration |-> i, Fitness |-> fitness, Time |-> t, State |-> state])

\* run_stat for checkpoint i
RunStat(i, fitness, t, state, current_iteration_stats, additional_info) ==
  Merge(Merge([Iteration |-> i, Fitness |-> fitness, Time |-> t, State |-> state],
              current_iteration_stats),
        additional_info)

\* the records one call appends to _raw_run_stats
RunStats(iteration, state, fitness, user_data, done, t, logged, pdd) ==
  LET cis == CurrentIterationStats(user_data, ParamStats(logged, pdd))
      ai == AdditionalInfo(logged, t)
      its == Iterations(iteration, done)
  IN  [j \in DOMAIN its |-> RunStat(its[j], fitness, t, state, cis, ai)]

\* _create_curve_stat
CreateCurveStat(iteration, fitness, curve_data, t) ==
  Merge([Iteration |-> iteration, Time |-> t, Fitness |-> fitness], curve_data)

\* mutant: the curve is built at every checkpoint
BuildsCurveAtCheckpoints(iteration, done, curve) ==
  generate_curves /\ curve.given /\ (done \/ iteration \in iteration_list)

\* whether a call builds the run's curve
BuildsCurve(iteration, done, curve) ==
  generate_curves /\ curve.given /\ (done \/ iteration = Max(iteration_list))

\* fc = list(zip(range(1, iteration + 1), curve)): as long as the shorter of the two
Fc(iteration, curve) ==
  [j \in 1..(IF Len(curve.values) < iteration THEN Len(curve.values) ELSE iteration) |->
     <<j, curve.values[j]>>]

\* self._iteration_times[i] is out of range for some i of fc
CurveIndexError(iteration, curve, times) ==
  \E j \in DOMAIN Fc(iteration, curve) : j + 1 > Len(times)

\* mutant: the time log read as if its first entry were iteration 1's
CurveStatsTimesFromOne(iteration, curve, current_iteration_stats, times, zero) ==
  LET fc == Fc(iteration, curve)
  IN  <<zero>> \o [j \in DOMAIN fc |->
                     CreateCurveStat(fc[j][1], fc[j][2], current_iteration_stats,
                                     times[fc[j][1]])]

\* curve_stats = [zero] + [create_curve_stat(i, f, cis, times[i]) for (i, f) in fc]
CurveStats(iteration, curve, current_iteration_stats, times, zero) ==
  LET fc == Fc(iteration, curve)
  IN  <<zero>> \o [j \in DOMAIN fc |->
                     CreateCurveStat(fc[j][1], fc[j][2], current_iteration_stats,
                                     times[fc[j][1] + 1])]

\* the value _save_state returns
ReturnValue(iteration, done) == IF Filtered(iteration, done) THEN TRUE ELSE ~done

\* --------------------------------------------------------------- inputs
\* one sweep option: key -> (name, vs); present is "vs is not None"
Option(key, name, vs) == [key |-> key, name |-> name, present |-> TRUE, vs |-> vs]

Absent(key, name) == [key |-> key, name |-> name, present |-> FALSE, vs |-> <<>>]

\* the candidate sequences an option is given in the sweeps explored
CandidateSeqs == {<<>>, <<1>>, <<1, 7>>}

\* run_experiment_'s kwargs: two options, each absent or with a candidate sequence
SweepKwargs ==
  {<<a, b>> : a \in {Absent("alpha", "Alpha")} \cup {Option("alpha", "Alpha", vs) : vs \in CandidateSeqs},
              b \in {Absent("beta", "Beta")} \cup {Option("beta", "Beta", vs) : vs \in CandidateSeqs}}

\* the runner's fixed **kwargs: none, one no option uses, one an option uses too
ExtraArgs == {EmptyDict, [gamma |-> 3], [alpha |-> 9]}

\* the state after __init__ (lines 37-54), before run_experiment_ is called
InitWith(lists, curves, extras, kws) ==
  /\ iteration_list \in lists
  /\ generate_curves \in curves
  /\ extra_args \in extras
  /\ kwargs \in kws
  /\ parameter_description_dict = EmptyDict
  /\ value_sets = <<>>
  /\ max_iters = 0
  /\ vns_index = 0
  /\ raw_run_stats = <<>>
  /\ fitness_curves = <<>>
  /\ zero_curve_stat = None
  /\ current_logged_algorithm_args = EmptyDict
  /\ run_start_time = 0
  /\ iteration_times = <<>>
  /\ now = 0
  /\ pc = "idle"
  /\ algorithm_args = EmptyDict
  /\ user_info = <<>>
  /\ alg_iters = 0
  /\ alg_curve = <<>>
  /\ alg_continue = TRUE
  /\ last_call = None
  /\ stats_mark = 0
  /\ curves_mark = 0
  /\ zero_curve_run = 0
  /\ replay_now = 0
  /\ replay_start_time = 0
  /\ replay_run_stats = <<>>
  /\ run_stats_df = NoTable
  /\ curves_df = NoTable
  /\ persisted = {}
  /\ invoked_log = <<>>
  /\ raised_in = <<>>
  /\ call_times = <<>>

\* ------------------------------------------------------------- actions
\* run_experiment_, lines 72-78: the product of the options' values, the budget
ExtractLoopParams ==
  /\ parameter_description_dict' = ParameterDescriptionDict(kwargs)
  /\ value_sets' = Product(Values(kwargs))
  /\ vns_index' = 1
  /\ IF IterationBudget(iteration_list) < 0
     THEN pc' = "error" /\ max_iters' = max_iters
     ELSE pc' = "loop" /\ max_iters' = IterationBudget(iteration_list)

\* run_experiment_ is called: _setup clears the buffers and looks for the output
\* directory (lines 56-62); with none to create, lines 72-78 follow
RunExperimentStart ==
  /\ pc = "idle"
  /\ raw_run_stats' = <<>>
  /\ fitness_curves' = <<>>
  /\ iteration_times' = <<>>
  /\ current_logged_algorithm_args' = EmptyDict
  /\ replay_run_stats' = <<>>
  /\ IF output_directory # "None" /\ ~dir_exists
     THEN pc' = "makedirs" /\ UNCHANGED sweep
     ELSE ExtractLoopParams
  /\ UNCHANGED <<inputs, zero_curve_stat, run_start_time, now, algorithm, history,
                 replay_now, replay_start_time, tables, invocations, dir_exists>>

\* _setup, line 63: os.makedirs raises FileExistsError if the directory is there
SetupMakedirs ==
  /\ pc = "makedirs"
  /\ IF dir_exists
     THEN pc' = "makedirs_failed" /\ UNCHANGED <<sweep, dir_exists>>
     ELSE dir_exists' = TRUE /\ ExtractLoopParams
  /\ UNCHANGED <<inputs, recorder, now, algorithm, history, replay, tables, invocations>>

\* another process creates the output directory
ExternalMkdir ==
  /\ output_directory # "None"
  /\ ~dir_exists
  /\ dir_exists' = TRUE
  /\ UNCHANGED <<inputs, sweep, recorder, now, pc, algorithm, history, replay, tables,
                 invocations>>

\* one pass of the for loop: _run_one_experiment and _invoke_algorithm up to the
\* call of the algorithm (lines 79-82, 91-97, 129-139)
RunOneExperiment ==
  /\ pc = "loop"
  /\ vns_index <= Len(value_sets)
  /\ LET total_args == TotalArgs(value_sets[vns_index], extra_args)
     IN  /\ user_info' = Items(total_args)
         /\ algorithm_args' = InvokeArgs(total_args, max_iters)
         /\ current_logged_algorithm_args' =
              Merge(current_logged_algorithm_args, InvokeArgs(total_args, max_iters))
  /\ iteration_times' = InvokeIterationTimes(iteration_times)
  /\ run_start_time' = InvokeRunStartTime(run_start_time, now)
  /\ replay_start_time' = InvokeRunStartTime(replay_start_time, replay_now)
  /\ alg_iters' = 0
  /\ alg_curve' = <<>>
  /\ alg_continue' = TRUE
  /\ stats_mark' = Len(raw_run_stats)
  /\ curves_mark' = Len(fitness_curves)
  /\ pc' = "invoked"
  /\ invoked_log' = Append(invoked_log,
                           [vns |-> value_sets[vns_index],
                            total_args |-> InvokeArgs(TotalArgs(value_sets[vns_index], extra_args),
                                                      max_iters),
                            at |-> now,
                            first_record |-> Len(raw_run_stats) + 1])
  /\ call_times' = <<>>
  /\ UNCHANGED <<inputs, sweep, raw_run_stats, fitness_curves, zero_curve_stat, now,
                 last_call, zero_curve_run, replay_now, replay_run_stats, tables,
                 raised_in, dir_exists>>

\* _save_state (lines 160-232) called with these arguments after the clocks of
\* this execution and of the replayed one have advanced by tick and rtick
SaveState(iteration, state, fitness, user_data, done, curve, tick, rtick) ==
  LET t == (now + tick) - run_start_time
      rt == (replay_now + rtick) - replay_start_time
      times == Append(iteration_times, t)
      logged == current_logged_algorithm_args
      pdd == parameter_description_dict
      cis == CurrentIterationStats(user_data, ParamStats(logged, pdd))
      skipped == Filtered(iteration, done)
      min_error == ~skipped /\ MinError(iteration, done)
      stored == ~skipped /\ ~min_error
      zero == IF stored /\ generate_curves /\ iteration = 0
              THEN CreateCurveStat(0, fitness, cis, t)
              ELSE zero_curve_stat
      builds == stored /\ BuildsCurve(iteration, done, curve)
      index_error == builds /\ CurveIndexError(iteration, curve, times)
  IN  /\ now' = now + tick
      /\ replay_now' = replay_now + rtick
      /\ iteration_times' = times
      /\ last_call' = [iteration |-> iteration, state |-> state, fitness |-> fitness,
                       user_data |-> user_data, done |-> done, curve |-> curve,
                       t |-> t, skipped |-> skipped]
      /\ raw_run_stats' =
           IF stored
           THEN raw_run_stats \o RunStats(iteration, state, fitness, user_data, done, t, logged, pdd)
           ELSE raw_run_stats
      /\ replay_run_stats' =
           IF stored
           THEN replay_run_stats \o RunStats(iteration, state, fitness, user_data, done, rt, logged, pdd)
           ELSE replay_run_stats
      /\ zero_curve_stat' = zero
      /\ zero_curve_run' = IF stored /\ generate_curves /\ iteration = 0
                           THEN vns_index ELSE zero_curve_run
      /\ fitness_curves' =
           IF builds /\ ~index_error
           THEN fitness_curves \o CurveStats(iteration, curve, cis, times, zero)
           ELSE fitness_curves
      /\ alg_continue' = ReturnValue(iteration, done)
      /\ call_times' = IF iteration + 1 \in DOMAIN call_times THEN call_times
                        ELSE [k \in (DOMAIN call_times) \cup {iteration + 1} |->
                                IF k = iteration + 1 THEN t ELSE call_times[k]]
      /\ pc' = IF min_error \/ index_error THEN "error" ELSE "iterating"

\* how far the two clocks may advance between two readings
Ticks(clock) == {d \in {0, 1} : clock + d <= MaxClock}

ReplayTicks(tick) == IF replay_free THEN Ticks(replay_now) ELSE {tick}

\* the algorithm's first callback: iteration 0, the initial state, no curve
AlgInitialCallback ==
  /\ pc = "invoked"
  /\ \E tick \in Ticks(now) : \E rtick \in ReplayTicks(tick) :
       SaveState(0, AlgState(0, AlgFitness(0)), AlgFitness(0), user_info \o alg_extra_data,
                 FALSE, NoCurve, tick, rtick)
  /\ UNCHANGED <<inputs, sweep, current_logged_algorithm_args, run_start_time,
                 algorithm_args, user_info, alg_iters, alg_curve,
                 stats_mark, curves_mark, replay_start_time, tables, invoked_log,
                 raised_in, dir_exists>>

\* one iteration of the algorithm and its callback; done is the algorithm's own
\* decision to stop (attempts exhausted, budget reached, problem solved)
AlgIterationCallback ==
  /\ pc = "iterating"
  /\ alg_continue
  /\ alg_iters < max_iters
  /\ \E done \in BOOLEAN, tick \in Ticks(now) : \E rtick \in ReplayTicks(tick) :
       LET iters == alg_iters + 1
           fitness == AlgFitness(iters)
           fitness_curve == IF generate_curves THEN Append(alg_curve, fitness) ELSE alg_curve
       IN  /\ alg_iters' = iters
           /\ alg_curve' = fitness_curve
           /\ SaveState(iters, AlgState(iters, fitness), fitness, user_info \o alg_extra_data,
                        done, IF generate_curves THEN Curve(fitness_curve) ELSE NoCurve,
                        tick, rtick)
  /\ UNCHANGED <<inputs, sweep, current_logged_algorithm_args, run_start_time,
                 algorithm_args, user_info, stats_mark, curves_mark, replay_start_time,
                 tables, invoked_log, raised_in, dir_exists>>

\* the algorithm's closing callback: the state it ends with, once more, with
\* done=true
AlgTerminalCallback ==
  /\ pc = "iterating"
  /\ alg_continue
  /\ \E tick \in Ticks(now) : \E rtick \in ReplayTicks(tick) :
       SaveState(alg_iters, AlgState(alg_iters, AlgFitness(alg_iters)), AlgFitness(alg_iters),
                 user_info \o alg_extra_data, TRUE,
                 IF generate_curves THEN Curve(alg_curve) ELSE NoCurve, tick, rtick)
  /\ UNCHANGED <<inputs, sweep, current_logged_algorithm_args, run_start_time,
                 algorithm_args, user_info, alg_iters, alg_curve,
                 stats_mark, curves_mark, replay_start_time, tables, invoked_log,
                 raised_in, dir_exists>>

\* the algorithm returns: the callback returned False, or the budget is used up
AlgReturn ==
  /\ pc = "iterating"
  /\ ~alg_continue \/ alg_iters >= max_iters
  /\ pc' = "loop"
  /\ vns_index' = vns_index + 1
  /\ UNCHANGED <<inputs, parameter_description_dict, value_sets, max_iters, recorder,
                 algorithm, history, replay, now, tables, invocations, dir_exists>>

\* mutant: run_experiment_ swallows the error and goes on with its loop
OnAlgorithmErrorSwallowed == "loop"

\* where run_experiment_ stands after the algorithm raised: lines 79-82 and
\* 140-146 have no handler, the error leaves run_experiment_
OnAlgorithmError == "algorithm_raised"

\* the algorithm raises instead of iterating on or returning
AlgRaise ==
  /\ pc \in {"invoked", "iterating"}
  /\ raised_in' = Append(raised_in, Len(invoked_log))
  /\ pc' = OnAlgorithmError
  /\ UNCHANGED <<inputs, sweep, recorder, algorithm, history, replay, now, tables,
                 invoked_log, call_times, dir_exists>>

\* the loop is over: _create_and_save_run_data_frames and the return (lines 84-89)
RunExperimentFinish ==
  /\ pc = "loop"
  /\ vns_index > Len(value_sets)
  /\ pc' = "done"
  /\ run_stats_df' = DataFrame(raw_run_stats)
  /\ curves_df' = DataFrame(fitness_curves)
  /\ persisted' = IF output_directory = "None" THEN {}
                  ELSE {"run_stats_df"} \cup (IF generate_curves THEN {"curves_df"} ELSE {})
  /\ UNCHANGED <<inputs, sweep, recorder, algorithm, history, replay, now, invocations,
                 dir_exists>>

\* a sweep that writes nothing to disk
Next ==
  \/ RunExperimentStart
  \/ RunOneExperiment
  \/ AlgInitialCallback
  \/ AlgIterationCallback
  \/ AlgReturn
  \/ AlgRaise
  \/ RunExperimentFinish

\* a sweep whose algorithm may close a run with a callback of its own
NextTerminal ==
  \/ Next
  \/ AlgTerminalCallback

\* a sweep with an output directory, which other processes may create
NextSetup ==
  \/ Next
  \/ SetupMakedirs
  \/ ExternalMkdir

\* non-empty checkpoint sets within the bound
CheckpointSets == (SUBSET (0..MaxIter)) \ {{}}

\* a sweep of two runs, the second with a decay schedule as its value
TwoRuns == <<Option("alpha", "Alpha", <<1, 7>>), Absent("beta", "Beta")>>

\* The recorder: every checkpoint set, with and without curves, over two runs.
Init ==
  /\ InitWith(CheckpointSets, BOOLEAN, {[gamma |-> 3]}, {TwoRuns})
  /\ replay_free = FALSE
  /\ output_directory = "None"
  /\ dir_exists = FALSE
  /\ alg_extra_data = AlgExtraData

Spec == Init /\ [][Next]_vars

\* The sweep: every shape of the options and of the fixed arguments, short runs.
InitSweep ==
  /\ InitWith({{1}}, {FALSE}, ExtraArgs, SweepKwargs)
  /\ replay_free = FALSE
  /\ output_directory = "None"
  /\ dir_exists = FALSE
  /\ alg_extra_data = AlgExtraData

SpecSweep == InitSweep /\ [][Next]_vars

\* Two executions of one sweep whose clocks advance independently.
InitReplay ==
  /\ InitWith({{1, 2}, {2}}, {FALSE}, {EmptyDict}, {TwoRuns})
  /\ replay_free = TRUE
  /\ output_directory = "None"
  /\ dir_exists = FALSE
  /\ alg_extra_data = AlgExtraData

SpecReplay == InitReplay /\ [][Next]_vars

\* Runs with curves whose algorithm may make a closing done=true callback.
InitTerminal ==
  /\ InitWith(CheckpointSets, {TRUE}, {EmptyDict}, {TwoRuns})
  /\ replay_free = FALSE
  /\ output_directory = "None"
  /\ dir_exists = FALSE
  /\ alg_extra_data = AlgExtraData

SpecTerminal == InitTerminal /\ [][NextTerminal]_vars

\* the display names an option is given in the runs that look at names
NamedKwargs ==
  {<<Option("alpha", "Alpha", <<7>>), Option("beta", name, <<2>>)>> :
     name \in {"Beta", "Rate", "Fitness"}}

\* the auxiliary data the algorithm adds in those runs
AuxData ==
  {AlgExtraData,
   << <<"RATE", 4>>, <<"schedule_type", 9>> >>,
   << <<"Iteration", 9>>, <<"fitness", 8>> >>,
   << <<"Time", 9>> >>}

\* One run each, over display names and auxiliary names that collide with one
\* another, with the diagnostic metrics and with the record's own fields.
InitNames ==
  /\ InitWith({{1}, {0, 2}, {1, 2}}, {FALSE}, {EmptyDict}, NamedKwargs)
  /\ replay_free = FALSE
  /\ output_directory = "None"
  /\ dir_exists = FALSE
  /\ alg_extra_data \in AuxData

SpecNames == InitNames /\ [][Next]_vars

\* The set-up: with and without an output directory, there or not, and with an
\* empty checkpoint set.
InitSetup ==
  /\ InitWith({{}, {1}}, BOOLEAN, {EmptyDict}, {TwoRuns})
  /\ replay_free = FALSE
  /\ output_directory \in {"None", "out"}
  /\ dir_exists \in BOOLEAN
  /\ alg_extra_data = AlgExtraData

SpecSetup == InitSetup /\ [][NextSetup]_vars

\* ---------------------------------------------------------------- claims
\* the positions in _raw_run_stats of the records of the run under way (or of
\* the last run, once it has returned)
RunRecords == (stats_mark + 1)..Len(raw_run_stats)

\* the positions in _fitness_curves of the points of that run
RunCurve == (curves_mark + 1)..Len(fitness_curves)

\* how many of the run's records carry Iteration c
CountAt(c) == Cardinality({j \in RunRecords : raw_run_stats[j].Iteration = c})

\* a run has made a callback and last_call, stats_mark, curves_mark are its own
InRun == pc = "iterating" \/ (pc \in {"loop", "done"} /\ vns_index > 1)

\* the run's latest callback carried done=true: the run has ended
RunEndedByDone == InRun /\ last_call.done

\* the run has returned to run_experiment_'s loop
RunReturned == pc \in {"loop", "done"} /\ vns_index > 1

\* a step of the model that is one call of _save_state
CallbackStep == pc \in {"invoked", "iterating"} /\ pc' \in {"iterating", "error"}

C2_DoneFansOut ==
  [][(CallbackStep /\ last_call'.done /\ last_call'.iteration > 0 /\ pc' = "iterating") =>
       LET call == last_call'
           old == Len(raw_run_stats)
           new == (old + 1)..Len(raw_run_stats')
       IN  /\ SubSeq(raw_run_stats', 1, old) = raw_run_stats
           /\ \A c \in iteration_list :
                c >= call.iteration =>
                  Cardinality({j \in new : raw_run_stats'[j].Iteration = c}) = 1
           /\ \A j \in new :
                /\ raw_run_stats'[j].Iteration \in {c \in iteration_list : c >= call.iteration}
                /\ raw_run_stats'[j].Fitness = call.fitness
                /\ raw_run_stats'[j].Time = call.t
                /\ raw_run_stats'[j].State = call.state
                /\ raw_run_stats'[j].current_restart = Dict(call.user_data)["current_restart"]
                /\ raw_run_stats'[j].Alpha = GetShortName(algorithm_args["alpha"])
                /\ raw_run_stats'[j].max_iters = max_iters
                /\ \A m \in new :
                     [raw_run_stats'[j] EXCEPT !.Iteration = 0]
                       = [raw_run_stats'[m] EXCEPT !.Iteration = 0]
  ]_vars

\* C2 witness: done=true arrived at iteration 2 of checkpoints {1, 2, 3}: the
\* record of checkpoint 1 is followed by those of 2 and 3, both of this callback.
C2_Witness ==
  /\ pc = "iterating"
  /\ iteration_list = {1, 2, 3}
  /\ last_call.done
  /\ last_call.iteration = 2
  /\ Len(raw_run_stats) = stats_mark + 4
  /\ raw_run_stats[stats_mark + 2].Iteration = 1
  /\ raw_run_stats[stats_mark + 3].Iteration = 2
  /\ raw_run_stats[stats_mark + 4].Iteration = 3
  /\ raw_run_stats[stats_mark + 4].Fitness = last_call.fitness
  /\ raw_run_stats[stats_mark + 2].Fitness # last_call.fitness

C5_ReturnsNotDone ==
  pc = "iterating" => alg_continue = ~last_call.done

\* C5 witness: a call that took the filtered path returned true.
C5_Witness ==
  /\ pc = "iterating"
  /\ last_call.skipped
  /\ alg_continue

RECURSIVE CandidateCounts(_)
\* n1 * ... * nk over the options whose candidate sequence is present
CandidateCounts(kw) ==
  IF kw = <<>> THEN 1
  ELSE (IF Head(kw).present THEN Len(Head(kw).vs) ELSE 1) * CandidateCounts(Tail(kw))

AllAbsent == \A j \in DOMAIN kwargs : ~kwargs[j].present

\* C6: run_experiment_ produces n1*...*nk distinct combinations, one value per
\* present option; with every candidate sequence absent it produces the one
\* empty combination, and the sweep then executes that baseline run.
C6_ProductOfCounts ==
  pc # "idle" =>
    /\ Len(value_sets) = CandidateCounts(kwargs)
    /\ Cardinality({value_sets[j] : j \in DOMAIN value_sets}) = Len(value_sets)
    /\ \A j \in DOMAIN value_sets :
         /\ Len(value_sets[j]) = Cardinality({m \in DOMAIN kwargs : kwargs[m].present})
         /\ \A m \in DOMAIN kwargs :
              kwargs[m].present =>
                \E q \in DOMAIN value_sets[j], v \in DOMAIN kwargs[m].vs :
                  value_sets[j][q] = <<kwargs[m].key, kwargs[m].vs[v]>>
    /\ AllAbsent => value_sets = << <<>> >>
    /\ (AllAbsent /\ pc = "done") => (vns_index = 2 /\ Len(raw_run_stats) > 0)

\* C6 witness: the sweep without any candidate sequence has run its one
\* baseline combination.
C6_Witness ==
  /\ AllAbsent
  /\ pc = "done"
  /\ value_sets = << <<>> >>
  /\ Len(raw_run_stats) > 0

\* the option names of the combination under way that are fixed arguments too
Collisions ==
  IF pc \in {"invoked", "iterating"}
  THEN (DOMAIN Dict(value_sets[vns_index])) \cap (DOMAIN extra_args)
  ELSE {}

\* C7 as stated: on a collision the algorithm is passed the combination's value.
C7_CombinationWins ==
  \A n \in Collisions : algorithm_args[n] = Dict(value_sets[vns_index])[n]

\* C7 as amended: on a collision the algorithm is passed, and the records log,
\* the fixed extra argument's value.
C7_FixedArgumentWins ==
  \A n \in Collisions :
    /\ algorithm_args[n] = extra_args[n]
    /\ \A j \in RunRecords :
         raw_run_stats[j][Gd(n, parameter_description_dict)] = GetShortName(extra_args[n])

\* C7 witness: option alpha has value 1 in the combination and 9 among the fixed
\* arguments, and a record of the run logs 9.
C7_Witness ==
  /\ pc = "iterating"
  /\ "alpha" \in Collisions
  /\ Dict(value_sets[vns_index])["alpha"] = 1
  /\ extra_args["alpha"] = 9
  /\ RunRecords # {}
  /\ raw_run_stats[Len(raw_run_stats)].Alpha = 9

\* the checkpoint set holds the one value c
SingleCheckpoint(c) == iteration_list = {c}

\* C8 as stated: with checkpoint set {0} the run holds the iteration-0 record
\* alone, and with one checkpoint beyond the iterations reached it holds no
\* record before the done=true call.
C8_OnlyAtTermination ==
  /\ (SingleCheckpoint(0) /\ InRun) =>
       (Len(raw_run_stats) = stats_mark + 1 /\ raw_run_stats[stats_mark + 1].Iteration = 0)
  /\ \A c \in 1..max_iters :
       (SingleCheckpoint(c) /\ pc = "iterating" /\ ~last_call.done /\ alg_iters < c) =>
         RunRecords = {}

\* C8 as amended: with checkpoint set {0} the run holds the iteration-0 record
\* alone; with one checkpoint c beyond the iterations reached it holds the
\* iteration-0 record alone until the done=true call, which adds the one record
\* of c.
C8_InitialRecordThenTermination ==
  /\ (SingleCheckpoint(0) /\ InRun) =>
       (Len(raw_run_stats) = stats_mark + 1 /\ raw_run_stats[stats_mark + 1].Iteration = 0)
  /\ \A c \in 1..max_iters :
       (SingleCheckpoint(c) /\ pc = "iterating" /\ alg_iters < c) =>
         /\ raw_run_stats[stats_mark + 1].Iteration = 0
         /\ raw_run_stats[stats_mark + 1].Fitness = AlgFitness(0)
         /\ ~last_call.done => Len(raw_run_stats) = stats_mark + 1
         /\ last_call.done =>
              /\ Len(raw_run_stats) = stats_mark + 2
              /\ raw_run_stats[stats_mark + 2].Iteration = c
              /\ raw_run_stats[stats_mark + 2].Fitness = last_call.fitness

\* C8 witness: checkpoint set {3}, done=true at iteration 2: the record of 3
\* follows the iteration-0 record.
C8_Witness ==
  /\ SingleCheckpoint(3)
  /\ pc = "iterating"
  /\ last_call.done
  /\ last_call.iteration = 2
  /\ Len(raw_run_stats) = stats_mark + 2
  /\ raw_run_stats[stats_mark + 1].Iteration = 0
  /\ raw_run_stats[stats_mark + 2].Iteration = 3

\* C9 as stated: when the algorithm is invoked the time log and the cached
\* zero-iteration record have both been reset.
C9_BuffersReset ==
  pc = "invoked" => (iteration_times = <<>> /\ zero_curve_stat = None)

\* C9 as amended: when the algorithm is invoked the time log has been reset, so
\* it holds the times of this run's callbacks only; the cached zero-iteration
\* record is not reset then, but with curve generation on the run's iteration-0
\* callback rewrites it before the curve is built, so the zero point of the
\* run's curve was written in this run.
C9_NoLeakBetweenRuns ==
  /\ pc = "invoked" => iteration_times = <<>>
  /\ pc = "iterating" => Len(iteration_times) = alg_iters + 1
  /\ (pc = "iterating" /\ generate_curves) => zero_curve_run = vns_index
  /\ (pc = "iterating" /\ RunCurve # {}) =>
       /\ fitness_curves[curves_mark + 1] = zero_curve_stat
       /\ fitness_curves[curves_mark + 1].Time = iteration_times[1]

\* C9 witness: the second run has built its curve, whose zero point differs from
\* the first run's.
C9_Witness ==
  /\ pc = "iterating"
  /\ vns_index = 2
  /\ curves_mark > 0
  /\ RunCurve # {}
  /\ fitness_curves[curves_mark + 1] # fitness_curves[1]
  /\ zero_curve_run = 2

\* a record without the fields named
Strip(r, names) == [key \in (DOMAIN r) \ names |-> r[key]]

\* the two executions' statistics lists agree record by record outside names
SameStatisticsBut(names) ==
  /\ Len(raw_run_stats) = Len(replay_run_stats)
  /\ \A j \in DOMAIN raw_run_stats :
       Strip(raw_run_stats[j], names) = Strip(replay_run_stats[j], names)

\* C10 as stated: two executions of one sweep with the same callbacks produce
\* statistics equal in every field but Time, whatever their elapsed times.
C10_EqualButTime == SameStatisticsBut({"Time"})

\* C10 as amended: they are equal in every field but Time and the diagnostic
\* metric a parameter value computes from the elapsed time.
C10_EqualButTimeAndDiagnostics == SameStatisticsBut({"Time", "schedule_current_value"})

\* C10 witness: a record of the run with the decay schedule whose time, and with
\* it whose schedule value, differs between the two executions.
C10_Witness ==
  \E j \in DOMAIN raw_run_stats :
    /\ j \in DOMAIN replay_run_stats
    /\ raw_run_stats[j].Time # replay_run_stats[j].Time
    /\ "schedule_current_value" \in DOMAIN raw_run_stats[j]
    /\ raw_run_stats[j].schedule_current_value # replay_run_stats[j].schedule_current_value
    /\ raw_run_stats[j].Fitness = replay_run_stats[j].Fitness

\* ---------------------------------------------------------------------------
\* C11: once the algorithm has raised during the run of a combination, the
\* error has left run_experiment_: that run is the last invocation (no later
\* combination is invoked, the failed one is not invoked again), and the result
\* tables are neither built nor written to disk.
C11_ErrorPropagates ==
  raised_in # <<>> =>
    /\ pc = "algorithm_raised"
    /\ Len(raised_in) = 1
    /\ Len(invoked_log) = raised_in[1]
    /\ vns_index = raised_in[1]
    /\ ~run_stats_df.built
    /\ ~curves_df.built
    /\ persisted = {}

\* the algorithm raised in the first of two combinations, after records were
\* collected, in a sweep that has an output directory
C11_Witness ==
  /\ raised_in = <<1>>
  /\ Len(value_sets) = 2
  /\ raw_run_stats # <<>>
  /\ output_directory # "None"
  /\ dir_exists

\* ---------------------------------------------------------------------------
\* C12: a sweep configured with an empty checkpoint set fails with an error
\* before the algorithm is invoked for any combination: there is no invocation,
\* no callback and no record, and run_experiment_ gets no further than its
\* set-up.
C12_EmptyCheckpointSetFails ==
  iteration_list = {} =>
    /\ pc \in {"idle", "makedirs", "makedirs_failed", "error"}
    /\ invoked_log = <<>>
    /\ call_times = <<>>
    /\ iteration_times = <<>>
    /\ raw_run_stats = <<>>

\* run_experiment_ has failed on an empty checkpoint set, combinations pending
C12_Witness ==
  /\ iteration_list = {}
  /\ pc = "error"
  /\ Len(value_sets) = 2

\* ---------------------------------------------------------------------------
\* C13: creating the output directory in the set-up never fails because the
\* path already exists, also when another process creates the directory between
\* the existence check and the create call.
C13_MakedirsNeverFails == pc # "makedirs_failed"

\* the directory was missing at the existence check and is there at the create
\* call
C13_Witness ==
  /\ pc = "makedirs"
  /\ dir_exists

\* ---------------------------------------------------------------------------
\* C14: with a clock that never goes back, the elapsed times logged by the
\* successive callbacks of one run never decrease, and every one of them, the
\* run's first included, is measured from the start of that run, not from the
\* start of an earlier run.
C14_ElapsedTimes ==
  pc = "iterating" =>
    /\ \A i, j \in DOMAIN iteration_times :
         i <= j => iteration_times[i] <= iteration_times[j]
    /\ iteration_times[1] >= 0
    /\ iteration_times[Len(iteration_times)] = now - invoked_log[Len(invoked_log)].at
    /\ last_call.t = now - invoked_log[Len(invoked_log)].at

\* the second run, started after the clock had advanced, has logged its first
\* elapsed time and later a larger one
C14_Witness ==
  /\ pc = "iterating"
  /\ Len(invoked_log) = 2
  /\ invoked_log[2].at > 0
  /\ Len(iteration_times) >= 2
  /\ iteration_times[1] < now - invoked_log[2].at
  /\ iteration_times[1] < iteration_times[Len(iteration_times)]

\* ---------------------------------------------------------------------------
\* a call of _save_state with done=false that was not filtered out
StoringCallNotDone ==
  /\ CallbackStep
  /\ pc' = "iterating"
  /\ ~last_call'.done
  /\ ~last_call'.skipped

\* the smallest checkpoint that is not below the iteration
SmallestCheckpointFrom(iteration) == Min({c \in iteration_list : c >= iteration})

\* C15 as stated: a callback with done=false that is not filtered out stores
\* exactly one record, under the smallest checkpoint greater than or equal to
\* its iteration, for every iteration, 0 included.
C15_SmallestCheckpoint ==
  [][StoringCallNotDone =>
       /\ Len(raw_run_stats') = Len(raw_run_stats) + 1
       /\ raw_run_stats'[Len(raw_run_stats')].Iteration =
            SmallestCheckpointFrom(last_call'.iteration)]_vars

\* C15 amended: a callback with done=false that is not filtered out appends
\* exactly one record; for an iteration above 0 its Iteration is the smallest
\* checkpoint greater than or equal to the iteration (the iteration itself), and
\* for iteration 0 its Iteration is 0, whether or not 0 is a checkpoint.
C15_OneRecordNotDone ==
  [][StoringCallNotDone =>
       /\ Len(raw_run_stats') = Len(raw_run_stats) + 1
       /\ SubSeq(raw_run_stats', 1, Len(raw_run_stats)) = raw_run_stats
       /\ raw_run_stats'[Len(raw_run_stats')].Iteration =
            IF last_call'.iteration = 0 THEN 0
            ELSE SmallestCheckpointFrom(last_call'.iteration)
       /\ (last_call'.iteration > 0 =>
             raw_run_stats'[Len(raw_run_stats')].Iteration = last_call'.iteration)]_vars

\* a run whose set has no checkpoint 0 but a later one has stored the record of
\* iteration 0 and then the record of a checkpoint with done=false, larger
\* checkpoints remaining
C15_Witness ==
  /\ pc = "iterating"
  /\ 0 \notin iteration_list
  /\ ~last_call.done
  /\ ~last_call.skipped
  /\ last_call.iteration > 0
  /\ \E c \in iteration_list : c > last_call.iteration
  /\ CountAt(0) = 1
  /\ raw_run_stats[Len(raw_run_stats)].Iteration = last_call.iteration

\* ---------------------------------------------------------------------------
\* a call of _save_state for an iteration above 0 that is no checkpoint, with
\* done=false
CallOffCheckpoint ==
  /\ CallbackStep
  /\ last_call'.iteration > 0
  /\ last_call'.iteration \notin iteration_list
  /\ ~last_call'.done

\* C16: a callback whose iteration is above 0 and no checkpoint, with
\* done=false, appends one elapsed time to the time log and changes nothing
\* else of the recorder (statistics list, curve list, cached iteration-0 curve
\* point, logged arguments, start time); it returns true.
C16_FilteredCallFrame ==
  [][CallOffCheckpoint =>
       /\ iteration_times' = Append(iteration_times, last_call'.t)
       /\ last_call'.t = now' - run_start_time
       /\ UNCHANGED <<raw_run_stats, fitness_curves, zero_curve_stat,
                      current_logged_algorithm_args, run_start_time,
                      parameter_description_dict, tables>>
       /\ alg_continue'
       /\ pc' = "iterating"]_vars

\* a callback has just been filtered out in a run with records, a cached
\* iteration-0 curve point and a curve under way
C16_Witness ==
  /\ pc = "iterating"
  /\ last_call.skipped
  /\ last_call.iteration > 0
  /\ last_call.curve.given
  /\ zero_curve_stat # None
  /\ RunRecords # {}
  /\ Len(iteration_times) >= 2
  /\ alg_continue

\* ---------------------------------------------------------------------------
\* C17: in the curve a run has built, the point for iteration i (1 <= i <= N)
\* carries the elapsed time logged by the callback made for iteration i, and
\* building the curve never reads outside the time log; the callbacks of a run
\* are one for iteration 0, one per iteration, and possibly a closing done=true
\* call.
C17_CurveTimes ==
  /\ pc # "error"
  /\ \A j \in RunCurve :
       fitness_curves[j].Iteration >= 1 =>
         /\ fitness_curves[j].Iteration + 1 \in DOMAIN call_times
         /\ fitness_curves[j].Time = call_times[fitness_curves[j].Iteration + 1]

\* a curve of two points built by a closing call that came later than the
\* callbacks of the iterations, themselves apart in time
C17_Witness ==
  /\ pc = "iterating"
  /\ last_call.done
  /\ last_call.iteration = 2
  /\ Len(call_times) = 3
  /\ call_times[1] < call_times[2]
  /\ call_times[2] < call_times[3]
  /\ call_times[3] < last_call.t
  /\ Cardinality(RunCurve) = 3
  /\ fitness_curves[Len(fitness_curves)].Time = call_times[3]

\* ---------------------------------------------------------------------------
\* a call of _save_state that stores records: positions Len(raw_run_stats) + 1
\* to Len(raw_run_stats') of the statistics list
StoringCall ==
  /\ CallbackStep
  /\ pc' = "iterating"
  /\ ~last_call'.skipped

\* the names the active parameters carry in a record: their display names
DisplayNames ==
  {Gd(key, parameter_description_dict) : key \in DOMAIN current_logged_algorithm_args}

\* the display value of the parameter with display name d
DisplayValue(d) ==
  GetShortName(current_logged_algorithm_args[
    CHOOSE key \in DOMAIN current_logged_algorithm_args :
      Gd(key, parameter_description_dict) = d])

\* the name equals an active parameter's display name, ignoring case
Collides(n) == \E d \in DisplayNames : Lower(d) = Lower(n)

\* C18: in every record a call stores, an auxiliary entry whose name equals an
\* active parameter's name (the display name the record lists the parameter
\* under) ignoring case does not appear and the record carries the parameter's
\* display value under the parameter's name; the auxiliary entries with other
\* names are all there; the diagnostic metrics of the parameter values are
\* there with their own values, whatever the two others say.
C18_ParameterWinsOverAuxiliary ==
  [][StoringCall =>
       \A j \in (Len(raw_run_stats) + 1)..Len(raw_run_stats') :
         LET r == raw_run_stats'[j]
             info == AdditionalInfo(current_logged_algorithm_args, last_call'.t)
             aux == last_call'.user_data
         IN  /\ \A p \in DOMAIN aux :
                  IF Collides(aux[p][1])
                  THEN aux[p][1] \notin DisplayNames \cup DOMAIN info
                         => aux[p][1] \notin DOMAIN r
                  ELSE /\ aux[p][1] \in DOMAIN r
                       /\ aux[p][1] \notin DOMAIN info => r[aux[p][1]] = Dict(aux)[aux[p][1]]
             /\ \A d \in DisplayNames :
                  /\ d \in DOMAIN r
                  /\ d \notin DOMAIN info => r[d] = DisplayValue(d)
             /\ \A k \in DOMAIN info : k \in DOMAIN r /\ r[k] = info[k]]_vars

\* a stored record of a run with the parameter Rate and the auxiliary entries
\* RATE and schedule_type: RATE is left out, Rate has the parameter's value,
\* the auxiliary entry beta is there, schedule_type is the diagnostic's
C18_Witness ==
  /\ pc = "iterating"
  /\ ~last_call.skipped
  /\ \E p \in DOMAIN last_call.user_data : last_call.user_data[p] = <<"RATE", 4>>
  /\ \E p \in DOMAIN last_call.user_data : last_call.user_data[p] = <<"schedule_type", 9>>
  /\ LET r == raw_run_stats[Len(raw_run_stats)]
     IN  /\ "RATE" \notin DOMAIN r
         /\ r.Rate = 2
         /\ r.beta = 2
         /\ r.Alpha = 70
         /\ r.schedule_type = 70

\* ---------------------------------------------------------------------------
\* the positions in _raw_run_stats of the records stored during invocation k
RecordsOfInvocation(k) ==
  {j \in DOMAIN raw_run_stats :
     /\ invoked_log[k].first_record <= j
     /\ k < Len(invoked_log) => j < invoked_log[k + 1].first_record}

\* C19: run_experiment_ invokes the algorithm once per combination, in the
\* order of the product: invocation k is for combination k, gets the
\* combination's values, the fixed arguments and a budget equal to the largest
\* checkpoint; the records of invocation k are all stored before invocation
\* k + 1 is made and carry combination k's values; a sweep that ends has
\* invoked every combination.
C19_OncePerCombinationInOrder ==
  /\ Len(invoked_log) <= Len(value_sets)
  /\ pc \in {"invoked", "iterating"} => Len(invoked_log) = vns_index
  /\ pc \in {"loop", "done"} => Len(invoked_log) = vns_index - 1
  /\ pc = "done" => Len(invoked_log) = Len(value_sets)
  /\ \A k \in DOMAIN invoked_log :
       /\ invoked_log[k].vns = value_sets[k]
       /\ invoked_log[k].total_args =
            Merge(Merge(Dict(value_sets[k]), extra_args),
                  [max_iters |-> Max(iteration_list)])
       /\ k > 1 => invoked_log[k - 1].first_record <= invoked_log[k].first_record
       /\ \A j \in RecordsOfInvocation(k) :
            /\ raw_run_stats[j].Alpha = GetShortName(Dict(value_sets[k]).alpha)
            /\ raw_run_stats[j].max_iters = Max(iteration_list)
  /\ \A j \in DOMAIN raw_run_stats : \E k \in DOMAIN invoked_log : j \in RecordsOfInvocation(k)

\* a sweep of two combinations over several checkpoints has ended, each
\* combination with records of its own
C19_Witness ==
  /\ pc = "done"
  /\ Len(invoked_log) = 2
  /\ Cardinality(iteration_list) >= 2
  /\ invoked_log[2].first_record > 1
  /\ Len(raw_run_stats) > invoked_log[2].first_record
  /\ raw_run_stats[1].Alpha # raw_run_stats[Len(raw_run_stats)].Alpha

\* ---------------------------------------------------------------------------
\* the auxiliary entries of a call that are merged into its records: those whose
\* name does not collide with a parameter's display name
MergedAuxiliary(user_data) == Dict(SelectSeq(user_data, LAMBDA p : ~Collides(p[1])))

\* what a record holds under a key field whose own value is v, after the
\* auxiliary entries, the parameters and the diagnostic metrics were merged in
KeyField(name, v, user_data, info) ==
  IF name \in DOMAIN info THEN info[name]
  ELSE IF name \in DisplayNames THEN DisplayValue(name)
  ELSE IF name \in DOMAIN MergedAuxiliary(user_data) THEN MergedAuxiliary(user_data)[name]
  ELSE v

\* C20 as stated: in every record a call stores, Iteration is the checkpoint the
\* record is stored under and Fitness and Time are the call's fitness and
\* elapsed time, whatever the names of the auxiliary entries, of the parameters
\* and of the diagnostic metrics.
C20_KeyFieldsKept ==
  [][StoringCall =>
       \A j \in (Len(raw_run_stats) + 1)..Len(raw_run_stats') :
         /\ raw_run_stats'[j].Iteration =
              Iterations(last_call'.iteration, last_call'.done)[j - Len(raw_run_stats)]
         /\ raw_run_stats'[j].Fitness = last_call'.fitness
         /\ raw_run_stats'[j].Time = last_call'.t]_vars

\* C20 amended: in every record a call stores, Iteration, Fitness and Time are
\* the checkpoint, the call's fitness and the call's elapsed time unless a
\* merged entry has exactly that name; then the field holds the merged value:
\* the diagnostic metric's, else the parameter's display value, else the value
\* of the auxiliary entry that passed the collision filter.
C20_KeyFieldsUnlessNamed ==
  [][StoringCall =>
       \A j \in (Len(raw_run_stats) + 1)..Len(raw_run_stats') :
         LET r == raw_run_stats'[j]
             info == AdditionalInfo(current_logged_algorithm_args, last_call'.t)
             aux == last_call'.user_data
             i == Iterations(last_call'.iteration, last_call'.done)[j - Len(raw_run_stats)]
         IN  /\ r.Iteration = KeyField("Iteration", i, aux, info)
             /\ r.Fitness = KeyField("Fitness", last_call'.fitness, aux, info)
             /\ r.Time = KeyField("Time", last_call'.t, aux, info)
             /\ ({"Iteration", "Fitness", "Time"} \cap
                   (DOMAIN info \cup DisplayNames \cup DOMAIN MergedAuxiliary(aux)) = {}
                 => r.Iteration = i /\ r.Fitness = last_call'.fitness /\ r.Time = last_call'.t)]_vars

\* a record stored under checkpoint 2 by a call with the auxiliary entry
\* Iteration = 9 in a sweep with a parameter displayed as Fitness: the record
\* has Iteration 9 and the parameter's value as Fitness
C20_Witness ==
  /\ pc = "iterating"
  /\ ~last_call.skipped
  /\ last_call.iteration = 2
  /\ \E p \in DOMAIN last_call.user_data : last_call.user_data[p] = <<"Iteration", 9>>
  /\ "Fitness" \in DisplayNames
  /\ raw_run_stats[Len(raw_run_stats)].Iteration = 9
  /\ raw_run_stats[Len(raw_run_stats)].Fitness = 2
  /\ last_call.fitness # 2
  /\ raw_run_stats[Len(raw_run_stats)].Time = last_call.t

====
